---- MODULE Spec2Model ----
(***************************************************************************)
(* Model of solve.py: the Piece / Board primitives and the four-level      *)
(* backtracking search of solve().                                         *)
(*                                                                         *)
(* Geometry.  shapely polygons are modelled exactly on an integer lattice: *)
(* a polygon is the set of lattice cells <<a, b>> (the square              *)
(* [a, a+1] x [b, b+1]) it covers.  Piece outlines are unions of U x U     *)
(* blocks, as the pieces of __main__ are unions of u x u squares.  Angles  *)
(* are counted in quarter turns (FullTurn = 2*pi), so that every pose of   *)
(* the grid maps lattice polygons to lattice polygons.  The board and the  *)
(* pose grid are scaled down from 147.32 x 96.52 and 10 x 10 x 20.         *)
(*                                                                         *)
(* Specifications.  Spec: solve called with four pieces.  FairSpec: the    *)
(* same, followed to its return.  CallSpec: solve called with any list of  *)
(* pieces.  BoardSpec, StrictSpec: Board.place and Board.clear called      *)
(* directly.                                                               *)
(***************************************************************************)
EXTENDS Integers, Sequences, FiniteSets, TLC

VARIABLES
    original,        \* Piece.original of the four Piece objects
    polygon,         \* Piece.polygon of the four Piece objects
    pieces,          \* Board.pieces: sequence of Piece objects (their ids)
    poses,           \* Board.poses: sequence of (x, y, theta)
    valid_poses,     \* solve: valid_poses[i], boundary-filtered poses of piece i
    poses_q1_valid,  \* solve: boundary-filtered quadrant poses of P0
    idx,             \* solve: idx[d] = candidates consumed by the loop of depth d
    depth,           \* solve: the loop the control is in (0..3)
    pc,              \* solve: position of the control
    ret,             \* solve: the returned pair (found, board)
    last,            \* the most recent Board.place / Board.clear call, with
                     \* the board it was called on
    calls            \* solve: number of board.place calls the search has made

vars == <<original, polygon, pieces, poses, valid_poses, poses_q1_valid,
          idx, depth, pc, ret, last, calls>>

---------------------------------------------------------------------------
(* Bounds of the model *)

NumShapes == 4       \* piece outlines the inputs are drawn from
MaxLen == 2          \* longest placement sequence the Board harness builds
MaxPieces == 5       \* longest list of pieces solve is called with

---------------------------------------------------------------------------
(* Program constants, scaled to the lattice *)

U == 2               \* u: side of a piece's unit square, in lattice cells
W == 8               \* Board.width
H == 4               \* Board.height
NX == 3              \* number of x offsets
NY == 3              \* number of y offsets
NTheta == 5          \* number of angles
FullTurn == 4        \* 2*math.pi, in quarter turns

\* The lengths of __main__ and of Board, in hundredths of a millimetre
u == 1905            \* u = 19.05
width == 14732       \* Board.width = 147.32
height == 9652       \* Board.height = 96.52

PieceIds == 0 .. 3   \* P0, P1, P2, P3

---------------------------------------------------------------------------
(* shapely / numpy *)

Min(S) == CHOOSE m \in S : \A n \in S : m <= n
Max(S) == CHOOSE m \in S : \A n \in S : m >= n

\* np.linspace(lo, hi, n): n evenly spaced values, both endpoints included
linspace(lo, hi, n) == [i \in 1 .. n |-> lo + ((i - 1) * (hi - lo)) \div (n - 1)]

\* s[:n]
Slice(s, n) ==
    IF n >= 0
    THEN SubSeq(s, 1, IF n < Len(s) THEN n ELSE Len(s))
    ELSE SubSeq(s, 1, IF Len(s) + n > 0 THEN Len(s) + n ELSE 0)

\* shapely.geometry.box(minx, miny, maxx, maxy)
box(minx, miny, maxx, maxy) ==
    {<<a, b>> : a \in minx .. (maxx - 1), b \in miny .. (maxy - 1)}

\* shapely.affinity.translate(geom, xoff, yoff)
translate(geom, xoff, yoff) == {<<c[1] + xoff, c[2] + yoff>> : c \in geom}

\* shapely.affinity.rotate(geom, angle, use_radians=True): counter-clockwise
\* about the centre of the bounding box (origin='center', the default).
\* cx2, cy2 are twice the centre's coordinates.
rotate(geom, angle) ==
    LET k == angle % FullTurn
        cx2 == Min({c[1] : c \in geom}) + Max({c[1] : c \in geom}) + 1
        cy2 == Min({c[2] : c \in geom}) + Max({c[2] : c \in geom}) + 1
    IN  CASE k = 0 -> geom
          [] k = 1 -> {<<(cx2 + cy2) \div 2 - c[2] - 1, (cy2 - cx2) \div 2 + c[1]>> : c \in geom}
          [] k = 2 -> {<<cx2 - c[1] - 1, cy2 - c[2] - 1>> : c \in geom}
          [] k = 3 -> {<<(cx2 - cy2) \div 2 + c[2], (cx2 + cy2) \div 2 - c[1] - 1>> : c \in geom}

\* a.contains(b): no point of b outside a, and the interiors meet
contains(a, b) == b # {} /\ b \subseteq a

\* a.overlaps(b): the interiors meet in a region of the geometries' own
\* dimension, and each geometry has points outside the other
overlaps(a, b) == a \cap b # {} /\ a \ b # {} /\ b \ a # {}

---------------------------------------------------------------------------
(* Inputs: piece outlines, as Polygon([...]) over multiples of u *)

Polygon(unitcells) ==
    UNION {box(U * c[1], U * c[2], U * c[1] + U, U * c[2] + U) : c \in unitcells}

ShapeCatalogue ==
    << Polygon({<<0, 0>>}),
       Polygon({<<0, 0>>, <<1, 0>>, <<0, 1>>}),
       Polygon({<<0, 0>>, <<1, 0>>, <<2, 0>>}),
       Polygon({<<1, 0>>}),
       Polygon({<<1, 0>>, <<0, 1>>, <<1, 1>>}) >>

Shapes == {ShapeCatalogue[i] : i \in 1 .. NumShapes}

---------------------------------------------------------------------------
(* Piece *)

\* Piece.transform: the pose applied to the ORIGINAL polygon
transform(orig, pose) == rotate(translate(orig, pose[1], pose[2]), pose[3])

---------------------------------------------------------------------------
(* Board *)

boundary == box(0, 0, W, H)

\* place reporting success whenever it appended the piece
place_reports_appended(pcs, pss, poly, piece, pose, allow_overlap) ==
    LET poly1 == [poly EXCEPT ![piece] = transform(original[piece], pose)]
        inside == contains(boundary, poly1[piece])
        allowed == inside /\ \A k \in 1 .. Len(pcs) : ~overlaps(poly1[piece], poly1[pcs[k]])
        add == allowed \/ allow_overlap
    IN  [pieces |-> IF add THEN Append(pcs, piece) ELSE pcs,
         poses |-> IF add THEN Append(pss, pose) ELSE pss,
         polygon |-> poly1,
         inside |-> inside,
         ret |-> add]

\* place whose transform applies the pose to the piece's current polygon
place_from_current(pcs, pss, poly, piece, pose, allow_overlap) ==
    LET poly1 == [poly EXCEPT ![piece] = transform(poly[piece], pose)]
        inside == contains(boundary, poly1[piece])
        allowed == inside /\ \A k \in 1 .. Len(pcs) : ~overlaps(poly1[piece], poly1[pcs[k]])
        add == allowed \/ allow_overlap
    IN  [pieces |-> IF add THEN Append(pcs, piece) ELSE pcs,
         poses |-> IF add THEN Append(pss, pose) ELSE pss,
         polygon |-> poly1,
         inside |-> inside,
         ret |-> allowed]

\* Board.place on the board (pcs, pss) with the Piece polygons poly.  The
\* board holds Piece objects, so the polygons it compares against are read
\* after piece.transform has run.
place(pcs, pss, poly, piece, pose, allow_overlap) ==
    LET poly1 == [poly EXCEPT ![piece] = transform(original[piece], pose)]
        inside == contains(boundary, poly1[piece])
        allowed == inside /\ \A k \in 1 .. Len(pcs) : ~overlaps(poly1[piece], poly1[pcs[k]])
        add == allowed \/ allow_overlap
    IN  [pieces |-> IF add THEN Append(pcs, piece) ELSE pcs,
         poses |-> IF add THEN Append(pss, pose) ELSE pss,
         polygon |-> poly1,
         inside |-> inside,
         ret |-> allowed]

\* clear removing nothing
clear_keeps_all(pcs, pss, ii) == [pieces |-> pcs, poses |-> pss]

\* clear keeping the entries 0 .. ii - 1 only
clear_off_by_one(pcs, pss, ii) ==
    IF ii + 1 < Len(pcs)
    THEN [pieces |-> Slice(pcs, ii), poses |-> Slice(pss, ii)]
    ELSE [pieces |-> pcs, poses |-> pss]

\* Board.clear
clear(pcs, pss, ii) ==
    IF ii + 1 < Len(pcs)
    THEN [pieces |-> Slice(pcs, ii + 1), poses |-> Slice(pss, ii + 1)]
    ELSE [pieces |-> pcs, poses |-> pss]

---------------------------------------------------------------------------
(* solve: pose discretization *)

xs == linspace(0, W, NX)
ys == linspace(0, H, NY)
thetas == linspace(0, FullTurn, NTheta)

\* the triple loop over (xv, yv, tv): x-major, then y, then theta
PoseLoop(xv, yv, tv) ==
    [n \in 1 .. Len(xv) * Len(yv) * Len(tv) |->
        << xv[((n - 1) \div (Len(yv) * Len(tv))) + 1],
           yv[(((n - 1) \div Len(tv)) % Len(yv)) + 1],
           tv[((n - 1) % Len(tv)) + 1] >>]

poses_all == PoseLoop(xs, ys, thetas)

\* the quadrant taking the first half of the offsets rounded up
poses_q1_rounded_up ==
    PoseLoop(Slice(xs, (Len(xs) + 1) \div 2), Slice(ys, (Len(ys) + 1) \div 2), thetas)

\* lines 120-124
poses_q1 == PoseLoop(Slice(xs, Len(xs) \div 2), Slice(ys, Len(ys) \div 2), thetas)

\* a filter keeping every pose of the list
BoundaryFilter_keeps_all(orig, list) == list

\* the poses of a list that put the outline orig inside the board
BoundaryFilter(orig, list) ==
    SelectSeq(list, LAMBDA pose : contains(boundary, transform(orig, pose)))

\* the list the loop of depth d iterates
Candidates(d) == IF d = 0 THEN poses_q1_valid ELSE valid_poses[d]

\* no call made yet
NoCall(poly) ==
    [op |-> "none", piece |-> -1, pose |-> <<0, 0, 0>>, allow_overlap |-> FALSE,
     ii |-> -1, ret |-> FALSE, inside |-> FALSE,
     pieces |-> <<>>, poses |-> <<>>, polygon |-> poly]

PlaceCall(pcs, pss, poly, piece, pose, allow_overlap, r) ==
    [op |-> "place", piece |-> piece, pose |-> pose, allow_overlap |-> allow_overlap,
     ii |-> -1, ret |-> r.ret, inside |-> r.inside,
     pieces |-> pcs, poses |-> pss, polygon |-> poly]

ClearCall(pcs, pss, poly, ii) ==
    [op |-> "clear", piece |-> -1, pose |-> <<0, 0, 0>>, allow_overlap |-> FALSE,
     ii |-> ii, ret |-> FALSE, inside |-> FALSE,
     pieces |-> pcs, poses |-> pss, polygon |-> poly]

---------------------------------------------------------------------------
(* solve *)

Init ==
    /\ original \in [PieceIds -> Shapes]
    /\ polygon = original
    /\ pieces = <<>>
    /\ poses = <<>>
    /\ valid_poses = [i \in PieceIds |-> <<>>]
    /\ poses_q1_valid = <<>>
    /\ idx = [d \in PieceIds |-> 0]
    /\ depth = 0
    /\ pc = "precompute"
    /\ ret = [found |-> FALSE, board |-> "None"]
    /\ last = NoCall(original)
    /\ calls = 0

\* lines 126-134: every piece is transformed by every pose of poses_all
Precompute ==
    /\ pc = "precompute"
    /\ valid_poses' = [i \in PieceIds |-> BoundaryFilter(original[i], poses_all)]
    /\ polygon' = [i \in PieceIds |-> transform(original[i], poses_all[Len(poses_all)])]
    /\ pc' = "precompute_q1"
    /\ UNCHANGED <<original, pieces, poses, poses_q1_valid, idx, depth, ret, last, calls>>

\* lines 136-140
PrecomputeQ1 ==
    /\ pc = "precompute_q1"
    /\ poses_q1_valid' = BoundaryFilter(original[0], poses_q1)
    /\ polygon' = IF Len(poses_q1) = 0 THEN polygon
                  ELSE [polygon EXCEPT ![0] = transform(original[0], poses_q1[Len(poses_q1)])]
    /\ pc' = "search"
    /\ UNCHANGED <<original, pieces, poses, valid_poses, idx, depth, ret, last, calls>>

\* an iteration that places without clearing the board first
Try_without_clear(d) ==
    /\ pc = "search"
    /\ depth = d
    /\ idx[d] < Len(Candidates(d))
    /\ \E pose \in {Candidates(d)[idx[d] + 1]} :
       \E r \in {place(pieces, poses, polygon, d, pose, TRUE)} :
           /\ pieces' = r.pieces
           /\ poses' = r.poses
           /\ polygon' = r.polygon
           /\ last' = PlaceCall(pieces, poses, polygon, d, pose, TRUE, r)
           /\ IF r.ret /\ d = 3
              THEN /\ pc' = "done"
                   /\ ret' = [found |-> TRUE, board |-> "board"]
                   /\ depth' = depth
                   /\ idx' = [idx EXCEPT ![d] = idx[d] + 1]
              ELSE /\ pc' = pc
                   /\ ret' = ret
                   /\ depth' = IF r.ret THEN d + 1 ELSE d
                   /\ idx' = IF r.ret
                             THEN [idx EXCEPT ![d] = idx[d] + 1, ![d + 1] = 0]
                             ELSE [idx EXCEPT ![d] = idx[d] + 1]
    /\ calls' = calls + 1
    /\ UNCHANGED <<original, valid_poses, poses_q1_valid>>

\* one iteration of the loop of depth d: board.clear(d - 1), then
\* board.place(Pd, pose, allow_overlap=True); on success enter the loop of
\* depth d + 1, or return (True, board) at depth 3.  pose, c and r are the
\* candidate, the board after the clear and the outcome of the place.
Try(d) ==
    /\ pc = "search"
    /\ depth = d
    /\ idx[d] < Len(Candidates(d))
    /\ \E pose \in {Candidates(d)[idx[d] + 1]} :
       \E c \in {clear(pieces, poses, d - 1)} :
       \E r \in {place(c.pieces, c.poses, polygon, d, pose, TRUE)} :
           /\ pieces' = r.pieces
           /\ poses' = r.poses
           /\ polygon' = r.polygon
           /\ last' = PlaceCall(c.pieces, c.poses, polygon, d, pose, TRUE, r)
           /\ IF r.ret /\ d = 3
              THEN /\ pc' = "done"
                   /\ ret' = [found |-> TRUE, board |-> "board"]
                   /\ depth' = depth
                   /\ idx' = [idx EXCEPT ![d] = idx[d] + 1]
              ELSE /\ pc' = pc
                   /\ ret' = ret
                   /\ depth' = IF r.ret THEN d + 1 ELSE d
                   /\ idx' = IF r.ret
                             THEN [idx EXCEPT ![d] = idx[d] + 1, ![d + 1] = 0]
                             ELSE [idx EXCEPT ![d] = idx[d] + 1]
    /\ calls' = calls + 1
    /\ UNCHANGED <<original, valid_poses, poses_q1_valid>>

\* an exhausted loop of depth 0 that does not fall through to the return
Exhaust_never_returns(d) ==
    /\ pc = "search"
    /\ depth = d
    /\ idx[d] = Len(Candidates(d))
    /\ d > 0
    /\ depth' = d - 1
    /\ UNCHANGED <<original, polygon, pieces, poses, valid_poses, poses_q1_valid, idx, pc, ret,
                   last, calls>>

\* the loop of depth d has no candidate left: back to the loop of depth
\* d - 1, or return (False, None) from depth 0
Exhaust(d) ==
    /\ pc = "search"
    /\ depth = d
    /\ idx[d] = Len(Candidates(d))
    /\ IF d = 0
       THEN /\ pc' = "done"
            /\ ret' = [found |-> FALSE, board |-> "None"]
            /\ depth' = depth
       ELSE /\ pc' = pc
            /\ ret' = ret
            /\ depth' = d - 1
    /\ UNCHANGED <<original, polygon, pieces, poses, valid_poses, poses_q1_valid, idx, last,
                   calls>>

Next ==
    \/ Precompute
    \/ PrecomputeQ1
    \/ \E d \in PieceIds : Try(d)
    \/ \E d \in PieceIds : Exhaust(d)

Spec == Init /\ [][Next]_vars

\* Calls of solve whose runs are followed to their end: the pieces are, by
\* their numbers in the catalogue, (1, 2, 3, 4), (2, 3, 1, 1), (3, 2, 2, 2)
\* and (2, 1, 3, 4)
FairInstances ==
    {[i \in PieceIds |-> ShapeCatalogue[s[i + 1]]] :
        s \in {<<1, 2, 3, 4>>, <<2, 3, 1, 1>>, <<3, 2, 2, 2>>, <<2, 1, 3, 4>>}}

FairInit ==
    /\ Init
    /\ original \in FairInstances

\* solve is a sequential program: whenever it has a next step, it takes it
FairSpec == FairInit /\ [][Next]_vars /\ WF_vars(Next)

---------------------------------------------------------------------------
(* Board used directly: any sequence of place and clear calls, as in        *)
(* example().  The calls are made on the Piece objects ApiPieces, with      *)
(* the grid's first two x offsets at its first y offset and angle.          *)

ApiPieces == {0, 1}

ApiShapes == {ShapeCatalogue[1], ShapeCatalogue[2], ShapeCatalogue[3]}

ApiPoses ==
    LET list == PoseLoop(Slice(xs, 2), Slice(ys, 1), Slice(thetas, 1))
    IN  {list[n] : n \in 1 .. Len(list)}

BoardInit ==
    /\ original \in {f \in [PieceIds -> ApiShapes] :
                        \A i \in PieceIds \ ApiPieces : f[i] = ShapeCatalogue[1]}
    /\ polygon = original
    /\ pieces = <<>>
    /\ poses = <<>>
    /\ valid_poses = [i \in PieceIds |-> <<>>]
    /\ poses_q1_valid = <<>>
    /\ idx = [d \in PieceIds |-> 0]
    /\ depth = 0
    /\ pc = "api"
    /\ ret = [found |-> FALSE, board |-> "None"]
    /\ last = NoCall(original)
    /\ calls = 0

\* board.place(piece, pose, allow_overlap)
ApiPlace(piece, pose, allow_overlap) ==
    /\ pc = "api"
    /\ Len(pieces) < MaxLen
    /\ LET r == place(pieces, poses, polygon, piece, pose, allow_overlap)
       IN  /\ pieces' = r.pieces
           /\ poses' = r.poses
           /\ polygon' = r.polygon
           /\ last' = PlaceCall(pieces, poses, polygon, piece, pose, allow_overlap, r)
    /\ UNCHANGED <<original, valid_poses, poses_q1_valid, idx, depth, pc, ret, calls>>

\* board.clear(ii)
ApiClear(ii) ==
    /\ pc = "api"
    /\ LET c == clear(pieces, poses, ii)
       IN  /\ pieces' = c.pieces
           /\ poses' = c.poses
           /\ last' = ClearCall(pieces, poses, polygon, ii)
    /\ UNCHANGED <<original, polygon, valid_poses, poses_q1_valid, idx, depth, pc, ret, calls>>

BoardNext ==
    \/ \E piece \in ApiPieces, pose \in ApiPoses, allow_overlap \in BOOLEAN :
            ApiPlace(piece, pose, allow_overlap)
    \/ \E ii \in -2 .. MaxLen : ApiClear(ii)

BoardSpec == BoardInit /\ [][BoardNext]_vars

\* only non-tentative placements
StrictNext ==
    \/ \E piece \in ApiPieces, pose \in ApiPoses : ApiPlace(piece, pose, FALSE)
    \/ \E ii \in -2 .. MaxLen : ApiClear(ii)

StrictSpec == BoardInit /\ [][StrictNext]_vars

---------------------------------------------------------------------------
(* solve called with any list of pieces: between 1 and MaxPieces Piece     *)
(* objects, whose outlines may be polygons without area, or the four       *)
(* pieces of __main__.                                                     *)

\* a polygon without area, such as Polygon([(0, 0), (u, 0), (2*u, 0)]): it
\* covers no cell of the lattice
Degenerate == Polygon({})

CallShapes == {Degenerate, ShapeCatalogue[1], ShapeCatalogue[2]}

\* __main__: the four outlines, by the u x u squares they are made of
poly1 == Polygon({<<0, 0>>, <<0, 1>>, <<1, 1>>, <<2, 1>>, <<3, 1>>, <<2, 2>>})
poly2 == Polygon({<<0, 0>>, <<1, 0>>, <<2, 0>>, <<3, 0>>, <<2, 1>>})
poly3 == Polygon({<<0, 0>>, <<1, 0>>, <<2, 0>>, <<1, 1>>, <<1, 2>>})
poly4 == Polygon({<<0, 0>>, <<1, 0>>, <<1, 1>>, <<1, 2>>, <<2, 2>>})

\* __main__: pieces = [Piece(poly1), Piece(poly2), Piece(poly3), Piece(poly4)]
MainPieces == [i \in PieceIds |-> <<poly1, poly2, poly3, poly4>>[i + 1]]

CallInit ==
    /\ original \in UNION {[0 .. (n - 1) -> CallShapes] : n \in 1 .. MaxPieces}
                        \cup {MainPieces}
    /\ polygon = original
    /\ pieces = <<>>
    /\ poses = <<>>
    /\ valid_poses = [i \in PieceIds |-> <<>>]
    /\ poses_q1_valid = <<>>
    /\ idx = [d \in PieceIds |-> 0]
    /\ depth = 0
    /\ pc = "call"
    /\ ret = [found |-> FALSE, board |-> "None"]
    /\ last = NoCall(original)
    /\ calls = 0

\* line 103, P0, P1, P2, P3 = pieces: a list of any other length than four
\* raises ValueError, and solve ends without returning
Unpack ==
    /\ pc = "call"
    /\ pc' = IF DOMAIN original = PieceIds THEN "precompute" ELSE "error"
    /\ UNCHANGED <<original, polygon, pieces, poses, valid_poses, poses_q1_valid, idx, depth,
                   ret, last, calls>>

CallNext ==
    \/ Unpack
    \/ Next

CallSpec == CallInit /\ [][CallNext]_vars

---------------------------------------------------------------------------
(* Terms of the specification used by the properties *)

Range(s) == {s[n] : n \in 1 .. Len(s)}

\* "two polygons overlap if their interiors intersect in a region of
\* positive area"
PositiveArea(a, b) == a \cap b # {}

\* "containment requires the transformed polygon's closure to be a subset
\* of the board rectangle's closure"
WithinBoundary(a) == a \subseteq boundary

\* the transformed polygon of the entry (piece, pose)
EntryPolygon(piece, pose) == transform(original[piece], pose)

\* the entries (pcs[k], pss[k]) are all inside the board and pairwise of
\* zero-area intersection
ValidBoard(pcs, pss) ==
    \A k \in 1 .. Len(pcs) :
        /\ WithinBoundary(EntryPolygon(pcs[k], pss[k]))
        /\ \A j \in 1 .. (k - 1) :
               ~PositiveArea(EntryPolygon(pcs[j], pss[j]), EntryPolygon(pcs[k], pss[k]))

\* the four candidates c (one index per depth) make a valid board
ValidCombination(c) ==
    ValidBoard(<<0, 1, 2, 3>>, [d \in 1 .. 4 |-> Candidates(d - 1)[c[d]]])

\* some combination of candidates is valid, piece 0 taking its pose from c0
ExistsValidCombination(c0) ==
    \E i0 \in 1 .. Len(c0) :
        /\ ValidBoard(<<0>>, <<c0[i0]>>)
        /\ \E i1 \in 1 .. Len(valid_poses[1]) :
               /\ ValidBoard(<<0, 1>>, <<c0[i0], valid_poses[1][i1]>>)
               /\ \E i2 \in 1 .. Len(valid_poses[2]) :
                      /\ ValidBoard(<<0, 1, 2>>, <<c0[i0], valid_poses[1][i1], valid_poses[2][i2]>>)
                      /\ \E i3 \in 1 .. Len(valid_poses[3]) :
                             ValidBoard(<<0, 1, 2, 3>>,
                                        <<c0[i0], valid_poses[1][i1], valid_poses[2][i2],
                                          valid_poses[3][i3]>>)

\* lexicographic order on tuples of four indices
LexLeq(s, t) ==
    \/ s = t
    \/ \E d \in 1 .. 4 : s[d] < t[d] /\ \A e \in 1 .. (d - 1) : s[e] = t[e]

\* the list is ordered x-major, then y, then theta
PoseOrdered(list) ==
    \A m, n \in 1 .. Len(list) :
        m < n => \/ list[m][1] < list[n][1]
                 \/ list[m][1] = list[n][1] /\ list[m][2] < list[n][2]
                 \/ list[m][1] = list[n][1] /\ list[m][2] = list[n][2] /\ list[m][3] < list[n][3]

\* the search of solve, run with the list c0 at depth 0, reaches its
\* return (True, board): some chain of four place calls all return True
SearchFinds(c0) ==
    \E i0 \in 1 .. Len(c0) :
        LET r0 == place(<<>>, <<>>, polygon, 0, c0[i0], TRUE)
        IN  /\ r0.ret
            /\ \E i1 \in 1 .. Len(valid_poses[1]) :
                   LET r1 == place(r0.pieces, r0.poses, r0.polygon, 1, valid_poses[1][i1], TRUE)
                   IN  /\ r1.ret
                       /\ \E i2 \in 1 .. Len(valid_poses[2]) :
                              LET r2 == place(r1.pieces, r1.poses, r1.polygon, 2,
                                              valid_poses[2][i2], TRUE)
                              IN  /\ r2.ret
                                  /\ \E i3 \in 1 .. Len(valid_poses[3]) :
                                         place(r2.pieces, r2.poses, r2.polygon, 3,
                                               valid_poses[3][i3], TRUE).ret

\* the run of solve agrees with SearchFinds on its own depth-0 list
SearchFindsAgrees == pc = "done" => (ret.found <=> SearchFinds(poses_q1_valid))

---------------------------------------------------------------------------
(* Properties *)

\* C1: whenever solve returns found = true, the board holds exactly four
\* entries, entry i being piece i at a pose of that piece's candidate list,
\* every entry lies within the board boundary and no two entries overlap.
C1_SolutionIsValid ==
    (pc = "done" /\ ret.found) =>
        /\ Len(pieces) = 4
        /\ Len(poses) = 4
        /\ \A i \in PieceIds : pieces[i + 1] = i /\ poses[i + 1] \in Range(Candidates(i))
        /\ ValidBoard(pieces, poses)

\* C2: when solve returns found = true, the tuple of candidate indices of
\* the returned placement is the lexicographically smallest among the tuples
\* whose four placements are in-bounds and pairwise non-overlapping, and
\* each candidate list is ordered x-major, then y, then theta.
C2_FirstValidInOrder ==
    (pc = "done" /\ ret.found) =>
        LET t == <<idx[0], idx[1], idx[2], idx[3]>>
        IN  /\ \A d \in PieceIds : PoseOrdered(Candidates(d))
            /\ \A d \in PieceIds : poses[d + 1] = Candidates(d)[idx[d]]
            /\ ValidCombination(t)
            /\ \A i0 \in 1 .. Len(Candidates(0)), i1 \in 1 .. Len(Candidates(1)),
                  i2 \in 1 .. Len(Candidates(2)), i3 \in 1 .. Len(Candidates(3)) :
                   ValidCombination(<<i0, i1, i2, i3>>) => LexLeq(t, <<i0, i1, i2, i3>>)

\* C3: solve returns found = false exactly when no combination of
\* candidates (piece 0 from its quadrant-restricted list) is simultaneously
\* in-bounds and pairwise non-overlapping, and then the board is absent.
C3_FailureIffNoCombination ==
    pc = "done" =>
        /\ ~ret.found <=> ~ExistsValidCombination(poses_q1_valid)
        /\ ~ret.found => ret.board = "None"

\* C4: a non-tentative place returns true if and only if the transformed
\* polygon lies within the boundary and overlaps no polygon of an entry
\* already placed; when true exactly one entry (piece, pose) is appended,
\* when false nothing is appended.
C4_PlaceIffValid ==
    (last.op = "place" /\ ~last.allow_overlap) =>
        LET new == EntryPolygon(last.piece, last.pose)
            valid == /\ WithinBoundary(new)
                     /\ \A k \in 1 .. Len(last.pieces) :
                            ~PositiveArea(new, last.polygon[last.pieces[k]])
        IN  /\ last.ret <=> valid
            /\ last.ret => /\ pieces = Append(last.pieces, last.piece)
                           /\ poses = Append(last.poses, last.pose)
            /\ ~last.ret => pieces = last.pieces /\ poses = last.poses

\* C5: a tentative place appends exactly one entry (piece, pose) to the
\* piece list and the pose list whatever the checks say, and returns what
\* the non-tentative place would have returned on the same board.
C5_TentativeAppendsAndReports ==
    (last.op = "place" /\ last.allow_overlap) =>
        /\ pieces = Append(last.pieces, last.piece)
        /\ poses = Append(last.poses, last.pose)
        /\ last.ret = place(last.pieces, last.poses, last.polygon,
                            last.piece, last.pose, FALSE).ret

\* a tentative place, inside the board but overlapping the entry already
\* there, was appended and reported false
C5_Witness ==
    /\ last.op = "place"
    /\ last.allow_overlap
    /\ last.inside
    /\ ~last.ret
    /\ Len(last.pieces) = 1
    /\ Len(pieces) = 2

\* C6: a non-tentative place that returns false leaves the board unchanged:
\* the piece list, the pose list and the transformed polygon of every entry
\* already on the board are as before the call.
C6_RejectedPlaceChangesNothing ==
    (last.op = "place" /\ ~last.allow_overlap /\ ~last.ret) =>
        /\ pieces = last.pieces
        /\ poses = last.poses
        /\ \A k \in 1 .. Len(last.pieces) :
               polygon[last.pieces[k]] = last.polygon[last.pieces[k]]

\* C7: for a board of k entries and d >= -1, clear(d) leaves exactly
\* min(d + 1, k) entries, the first ones in their order, in both lists; it
\* changes nothing when k <= d + 1.
C7_ClearTruncates ==
    (last.op = "clear" /\ last.ii >= -1) =>
        LET k == Len(last.pieces)
            m == IF last.ii + 1 < k THEN last.ii + 1 ELSE k
        IN  /\ Len(pieces) = m
            /\ Len(poses) = m
            /\ pieces = SubSeq(last.pieces, 1, m)
            /\ poses = SubSeq(last.poses, 1, m)
            /\ k <= last.ii + 1 => pieces = last.pieces /\ poses = last.poses

\* clear(0) on a board of two entries kept the first
C7_Witness ==
    /\ last.op = "clear"
    /\ last.ii = 0
    /\ Len(last.pieces) = 2
    /\ Len(last.poses) = 2
    /\ pieces = <<last.pieces[1]>>
    /\ poses = <<last.poses[1]>>

\* C8: after any sequence of non-tentative place calls and clear calls,
\* every entry lies within the board boundary and every pair of entries has
\* zero-area intersection.
C8_StrictBoardIsValid == ValidBoard(pieces, poses)

\* C9: during the search, all entries except possibly the most recently
\* appended one lie within the boundary and are pairwise non-overlapping;
\* the last entry may break this only when the place call that appended it
\* returned false.
C9_SearchBoardIsValid ==
    pc \in {"search", "done"} =>
        /\ ValidBoard(Slice(pieces, Len(pieces) - 1), Slice(poses, Len(poses) - 1))
        /\ ~ValidBoard(pieces, poses) => last.op = "place" /\ ~last.ret

\* C10: if the search run with piece 0's full boundary-filtered list finds
\* a solution, the search run with its quadrant-restricted list, as solve
\* runs it, finds one too.
C10_QuadrantSound ==
    pc = "done" => (SearchFinds(valid_poses[0]) => ret.found)

\* the single piece of a one-piece call fits the board at some pose of the
\* depth-0 list
SinglePieceFits ==
    /\ DOMAIN original = {0}
    /\ \E n \in 1 .. Len(poses_q1) : WithinBoundary(EntryPolygon(0, poses_q1[n]))
                                      /\ EntryPolygon(0, poses_q1[n]) # {}

\* C11: solve accepts any number n >= 1 of pieces rather than ending in an
\* error, and called with exactly one piece that fits the board it returns
\* found = true, the board holding that piece at the first candidate of the
\* depth-0 list that contains it.
C11_SinglePieceSolves ==
    /\ (\A i \in DOMAIN original : original[i] # Degenerate) => pc # "error"
    /\ SinglePieceFits =>
           /\ pc # "call" => pc = "done" /\ ret.found
           /\ pc = "done" => /\ pieces = <<0>>
                             /\ \E n \in 1 .. Len(poses_q1) :
                                    /\ poses = <<poses_q1[n]>>
                                    /\ WithinBoundary(EntryPolygon(0, poses_q1[n]))
                                    /\ \A m \in 1 .. (n - 1) :
                                           ~WithinBoundary(EntryPolygon(0, poses_q1[m]))

\* C12: the full pose set the candidate lists are filtered from is the
\* Cartesian product of the NX x offsets, the NY y offsets and the NTheta
\* angles, NX * NY * NTheta poses in all; every angle, of the pose set and
\* so of every candidate list, lies in the half-open range [0, 2*pi), and
\* no two angles of the grid denote the same rotation.
C12_AnglesHalfOpen ==
    pc \in {"precompute_q1", "search", "done"} =>
        /\ Len(poses_all) = NX * NY * NTheta
        /\ Range(poses_all) =
               {<<x, y, t>> : x \in Range(xs), y \in Range(ys), t \in Range(thetas)}
        /\ \A n \in 1 .. Len(thetas) : 0 <= thetas[n] /\ thetas[n] < FullTurn
        /\ \A i \in PieceIds : \A n \in 1 .. Len(valid_poses[i]) :
               valid_poses[i][n] \in Range(poses_all) /\ valid_poses[i][n][3] < FullTurn
        /\ \A m, n \in 1 .. Len(thetas) :
               m # n => \E s \in Shapes : rotate(s, thetas[m]) # rotate(s, thetas[n])

\* area of a polygon of the lattice, in square hundredths of a millimetre:
\* a lattice cell is a square of side u / U
Area(poly) == (Cardinality(poly) * u * u) \div (U * U)

\* C13: in the end-to-end instance, the call of solve with the four pieces
\* of __main__, each piece has area exactly one quarter of the board area,
\* the areas of the four pieces sum to width * height, and so a returned
\* solution, four pieces inside the board without overlap, covers the board.
C13_PiecesQuarterTheBoard ==
    original = MainPieces =>
        /\ \A i \in PieceIds : 4 * Area(original[i]) = width * height
        /\ Area(original[0]) + Area(original[1]) + Area(original[2]) + Area(original[3])
               = width * height

\* C14: a configuration error fails fast: when a piece of the call has a
\* degenerate polygon, solve reports an error before any place call is
\* made, instead of returning found = false.
C14_ConfigErrorsFailFast ==
    (\E i \in DOMAIN original : original[i] = Degenerate) =>
        /\ calls = 0
        /\ pc # "done"

\* the pose has its x among the first floor(NX / 2) x offsets and its y
\* among the first floor(NY / 2) y offsets
InQuadrant(pose) ==
    /\ \E m \in 1 .. (NX \div 2) : pose[1] = xs[m]
    /\ \E m \in 1 .. (NY \div 2) : pose[2] = ys[m]

\* C15: when the search starts, the list iterated at depth 0 is
\* exactly the order-preserving subsequence of piece 0's full
\* boundary-filtered list whose poses have x among the first floor(NX/2)
\* x offsets and y among the first floor(NY/2) y offsets, all angles
\* retained; the list of every piece is the full pose set filtered by
\* boundary containment only, in generation order.
C15_CandidateLists ==
    pc = "search" /\ calls = 0 =>
        /\ Candidates(0) = SelectSeq(valid_poses[0], InQuadrant)
        /\ \A i \in PieceIds :
               valid_poses[i] =
                   SelectSeq(poses_all, LAMBDA pose : WithinBoundary(EntryPolygon(i, pose)))
        /\ \A i \in PieceIds \ {0} : Candidates(i) = valid_poses[i]

\* the quadrant restriction removes some, not all, of piece 0's poses, and
\* the boundary filter some, not all, of piece 1's
C15_Witness ==
    /\ pc = "search"
    /\ calls = 0
    /\ 0 < Len(poses_q1_valid)
    /\ Len(poses_q1_valid) < Len(valid_poses[0])
    /\ 0 < Len(valid_poses[1])
    /\ Len(valid_poses[1]) < Len(poses_all)

\* C16: at every depth d, the board the place call is made on (after the
\* clear that precedes it) holds exactly d entries, pieces 0 .. d-1 at their
\* currently selected candidates, and after the call the board holds d + 1
\* entries, entry i being piece i and the new entry the candidate tried;
\* this also holds for the first place call of depth d - 1 made after the
\* candidates of depth d were exhausted, which finds the board truncated to
\* d - 1 entries.
C16_BoardDepthDiscipline ==
    last.op = "place" =>
        LET d == last.piece
        IN  /\ last.pieces = [i \in 1 .. d |-> i - 1]
            /\ last.poses = [i \in 1 .. d |-> Candidates(i - 1)[idx[i - 1]]]
            /\ last.pose = Candidates(d)[idx[d]]
            /\ pieces = [i \in 1 .. (d + 1) |-> i - 1]
            /\ poses = Append(last.poses, last.pose)

\* the candidates of depth 2 were exhausted, and the next candidate of
\* depth 1 has been tried since, on a board of one entry
C16_Witness ==
    /\ pc = "search"
    /\ last.op = "place"
    /\ last.piece = 1
    /\ ~last.ret
    /\ depth = 1
    /\ idx[2] > 0
    /\ idx[2] = Len(valid_poses[2])
    /\ Len(last.pieces) = 1
    /\ Len(pieces) = 2

\* C17: during the search no place call fails the boundary check; every
\* tentative placement at depth 0 returns true, and a placement at depth
\* d >= 1 returns false only when the placed polygon overlaps, in a region
\* of positive area, one of the entries 0 .. d-1 of the board.
C17_OnlyOverlapRejects ==
    last.op = "place" =>
        /\ last.inside
        /\ WithinBoundary(polygon[last.piece])
        /\ last.piece = 0 => last.ret
        /\ ~last.ret =>
               \E k \in 1 .. Len(last.pieces) :
                   PositiveArea(EntryPolygon(last.piece, last.pose),
                                EntryPolygon(last.pieces[k], last.poses[k]))

\* a placement at depth 2 rejected although it is inside the board
C17_Witness ==
    /\ pc = "search"
    /\ last.op = "place"
    /\ last.piece = 2
    /\ ~last.ret
    /\ last.inside
    /\ Len(last.pieces) = 2

\* C18: transform is applied fresh from the reference polygon: after a
\* place call of the search with pose p, whatever pose the piece had
\* before, the piece's polygon is the reference polygon translated and
\* rotated by p; and re-placing the same piece at the same pose at its
\* depth d after clear(d - 1) reproduces the identical polygon, the
\* identical board and the identical place result.
C18_TransformFromReference ==
    last.op = "place" =>
        LET d == last.piece
            fresh == rotate(translate(original[d], last.pose[1], last.pose[2]), last.pose[3])
            c == clear(pieces, poses, d - 1)
            again == place(c.pieces, c.poses, polygon, d, last.pose, TRUE)
        IN  /\ polygon[d] = fresh
            /\ again.polygon = polygon
            /\ again.ret = last.ret
            /\ again.pieces = pieces
            /\ again.poses = poses

\* the piece placed had been transformed by another pose before, which
\* left it a polygon different from its reference and from its new one
C18_Witness ==
    /\ pc = "search"
    /\ last.op = "place"
    /\ last.piece = 1
    /\ last.polygon[1] # original[1]
    /\ last.polygon[1] # polygon[1]
    /\ polygon[1] # original[1]
    /\ calls > 2

\* the number of place calls of a search in which every placement succeeds
CallBound ==
    Len(Candidates(0)) * (1 + Len(Candidates(1)) * (1 + Len(Candidates(2))
                                                          * (1 + Len(Candidates(3)))))

\* C19: solve always terminates: every run eventually reaches its return
\* (True, board) or its return (False, None); the candidate index of a
\* depth only advances while the enclosing iteration lasts, that is, it
\* goes back only when the index of an enclosing depth advances; and the
\* number of place calls never exceeds |C0|*(1+|C1|*(1+|C2|*(1+|C3|))).
C19_SolveTerminates ==
    /\ <>(pc = "done")
    /\ [](pc \in {"search", "done"} => calls <= CallBound)
    /\ [][\A d \in PieceIds :
              /\ idx'[d] <= Len(Candidates(d))
              /\ idx'[d] < idx[d] => \E e \in 0 .. (d - 1) : idx'[e] > idx[e]]_vars

\* a search that has returned after it backtracked out of depth 1
C19_Witness ==
    /\ pc = "done"
    /\ idx[1] = Len(Candidates(1))
    /\ idx[1] > 0
    /\ calls > idx[1]

\* C20: during the search the piece list and the pose list of the board
\* have equal length, no piece object appears twice in the piece list, and
\* for every entry i the polygon of pieces[i] equals its reference polygon
\* transformed by poses[i].
C20_BoardConsistent ==
    pc \in {"search", "done"} =>
        /\ Len(pieces) = Len(poses)
        /\ \A i, j \in 1 .. Len(pieces) : i # j => pieces[i] # pieces[j]
        /\ \A i \in 1 .. Len(pieces) :
               polygon[pieces[i]] =
                   rotate(translate(original[pieces[i]], poses[i][1], poses[i][2]), poses[i][3])

\* a board of four entries, the last one kept from a rejected placement,
\* with every piece moved away from its reference polygon
C20_Witness ==
    /\ pc = "search"
    /\ Len(pieces) = 4
    /\ last.op = "place"
    /\ ~last.ret
    /\ \A i \in PieceIds : polygon[i] # original[i]

====
